---------------------------- MODULE Spec2Model ----------------------------
(***************************************************************************)
(* A model of mbackk: a directory tree is linearised into a stream of      *)
(* length-prefixed records and raw spans (storage.rs, struct_stream.rs),   *)
(* and the stream is split over numbered, size-capped part files           *)
(* (multipart.rs).                                                         *)
(*                                                                         *)
(* A byte is a number in 0..255, a byte string a sequence of bytes.  A     *)
(* Rust String is modelled by its UTF-8 bytes.  A directory of part files  *)
(* is a function from the part numbers that exist to their contents.       *)
(***************************************************************************)
EXTENDS Integers, Sequences, FiniteSets, TLC

VARIABLES
    max_file_size,  \* MultipartWriter.max_file_size
    disk,           \* the backup directory: part number -> bytes of that part
    mw,             \* MultipartWriter cursor: [file_number, file_size]
    w_ret,          \* what the last MultipartWriter::write call returned
    sent,           \* history: the bytes the writer has accepted so far
    rs,             \* reader: [mr: MultipartReader cursor, buf: BufReader's buffer]
    r_ret,          \* what the last MultipartReader::read call returned
    r_out,          \* history: the bytes the reader has delivered so far
    r_eofs,         \* history: how many reads of a non-empty buffer returned 0
    wlog,           \* history: the records and spans handed to StructWriter
    rlog,           \* history: what StructReader returned, call by call
    src,            \* the tree being backed up: path -> node
    stack,          \* write_directory's open calls: [path, todo] each
    cur_file,       \* write_file: the file opened and not yet copied, or <<>>
    base_path,      \* interpret's base_path
    out,            \* the file system restore writes to: path -> node
    status,         \* interpret: "running", or what it returned, "ok" or "err"
    stop,           \* history: why interpret returned
    phase,          \* where the run is
    pc,             \* where a write or read call taken step by step stands
    arg,            \* that call's buffer (write) or buffer length (read)
    w_files,        \* the parts the writer holds an open File of
    r_files,        \* the parts the reader holds an open File of
    rolls           \* history: the parts the write call in progress has created

\* the multipart writer's and reader's own state
wvars == <<mw, w_ret, sent>>
rvars == <<rs, r_ret, r_out, r_eofs>>
\* the framed channel's histories
fvars == <<wlog, rlog>>

\* the archiver's and the restorer's state
bvars == <<src, stack, cur_file>>
ivars == <<base_path, out, status, stop>>
svars == <<bvars, ivars>>

\* a call taken step by step, and the open files
hvars == <<pc, arg, w_files, r_files, rolls>>

vars == <<max_file_size, disk, wvars, rvars, fvars, svars, phase, hvars>>

-----------------------------------------------------------------------------
(* Bounds of the model *)

\* largest max part size tried
MaxM == 3
\* longest buffer handed to one write call, and largest read buffer
MaxBuf == 3
\* most bytes written to one multipart stream
MaxStream == 5
\* reads made after the stream has ended
MaxEofReads == 2

\* the byte values written in the multipart runs
ByteSet == {1, 2}

-----------------------------------------------------------------------------
(* Helpers *)

Min(a, b) == IF a <= b THEN a ELSE b

\* F(x), with x computed once: LET v == x IN F(v), for an x that is costly
With(x, F(_)) == CHOOSE y \in {F(v) : v \in {x}} : TRUE

\* all sequences over S of length at most n
SeqsUpTo(S, n) == UNION {[1..k -> S] : k \in 0..n}

\* s without its first n elements (Rust: &s[n..])
Drop(s, n) == SubSeq(s, n + 1, Len(s))

\* the first n elements of s (Rust: &s[..n])
Take(s, n) == SubSeq(s, 1, n)

RECURSIVE Concat(_, _, _)
\* the parts a..b that exist, concatenated in numeric order (by halves)
Concat(d, a, b) ==
    IF a > b THEN <<>>
    ELSE IF a = b THEN (IF a \in DOMAIN d THEN d[a] ELSE <<>>)
    ELSE Concat(d, a, (a + b) \div 2) \o Concat(d, (a + b) \div 2 + 1, b)

\* the last part of the run k, k+1, ... of parts that exist (k - 1 when part k
\* is missing): the one before the first number from k on that is missing
RunEnd(d, k) ==
    (CHOOSE m \in k..(k + Cardinality(DOMAIN d)) :
        /\ m \notin DOMAIN d
        /\ \A j \in k..(m - 1) : j \in DOMAIN d) - 1

\* the bytes of all the parts of the directory
AllParts(d) ==
    IF DOMAIN d = {} THEN <<>>
    ELSE Concat(d, 0, CHOOSE n \in DOMAIN d :
                        /\ (n + 1) \notin DOMAIN d
                        /\ \A m \in DOMAIN d : m <= n)

\* the parts k, k+1, ... concatenated, up to the first number that is missing
StreamFrom(d, k) == Concat(d, k, RunEnd(d, k))

-----------------------------------------------------------------------------
(* multipart.rs: MultipartWriter *)

\* std::fs::File::create: the file exists afterwards and is empty
File_create(d, n) == (n :> <<>>) @@ d

\* MultipartWriter::new: create_dir_all, then create part 0
MultipartWriter_new(d) ==
    [w |-> [file_number |-> 0, file_size |-> 0], d |-> File_create(d, 0)]

\* a write that ignores the room left in the part
MultipartWriter_write_nocap(w, d, max, buf) ==
    LET can_write == max - w.file_size IN
    IF can_write = 0
    THEN [w   |-> [file_number |-> w.file_number + 1, file_size |-> Len(buf)],
          d   |-> [File_create(d, w.file_number + 1)
                      EXCEPT ![w.file_number + 1] = buf],
          ret |-> Len(buf)]
    ELSE [w   |-> [w EXCEPT !.file_size = @ + Len(buf)],
          d   |-> [d EXCEPT ![w.file_number] = @ \o buf],
          ret |-> Len(buf)]

\* a write whose rollover re-creates the current part instead of the next one
MultipartWriter_write_samepart(w, d, max, buf) ==
    LET can_write == max - w.file_size IN
    IF can_write = 0
    THEN LET size == Min(Len(buf), max) IN
         [w   |-> [w EXCEPT !.file_size = size],
          d   |-> [d EXCEPT ![w.file_number] = Take(buf, size)],
          ret |-> size]
    ELSE LET size == Min(Len(buf), can_write) IN
         [w   |-> [w EXCEPT !.file_size = @ + size],
          d   |-> [d EXCEPT ![w.file_number] = @ \o Take(buf, size)],
          ret |-> size]

\* a write that, when it fills the part, creates the next part at once and
\* leaves the cursor where it is
MultipartWriter_write_precreate(w, d, max, buf) ==
    LET can_write == max - w.file_size IN
    IF can_write = 0
    THEN LET size == Min(Len(buf), max) IN
         [w   |-> [file_number |-> w.file_number + 1, file_size |-> size],
          d   |-> [File_create(d, w.file_number + 1)
                      EXCEPT ![w.file_number + 1] = Take(buf, size)],
          ret |-> size]
    ELSE LET size == Min(Len(buf), can_write)
             d1   == [d EXCEPT ![w.file_number] = @ \o Take(buf, size)]
         IN  [w   |-> [w EXCEPT !.file_size = @ + size],
              d   |-> IF size = can_write /\ size > 0
                      THEN File_create(d1, w.file_number + 1) ELSE d1,
              ret |-> size]

RECURSIVE MultipartWriter_write(_, _, _, _)
\* <MultipartWriter as Write>::write: one call, which may write less than buf
MultipartWriter_write(w, d, max, buf) ==
    LET can_write == max - w.file_size IN
    IF can_write = 0
    THEN MultipartWriter_write(
             [file_number |-> w.file_number + 1, file_size |-> 0],
             File_create(d, w.file_number + 1), max, buf)
    ELSE LET size == Min(Len(buf), can_write) IN
         [w   |-> [w EXCEPT !.file_size = @ + size],
          d   |-> [d EXCEPT ![w.file_number] = @ \o Take(buf, size)],
          ret |-> size]

\* write_all's loop body, on the loop's state [w, d, buf, ok]: nothing once the
\* loop has ended (buf empty, or WriteZero), else one write and buf = &buf[n..]
write_all_step(s, max) ==
    IF s.buf = <<>> \/ ~s.ok
    THEN s
    ELSE With(MultipartWriter_write(s.w, s.d, max, s.buf), LAMBDA r :
            IF r.ret = 0
            THEN [w |-> r.w, d |-> r.d, buf |-> s.buf, ok |-> FALSE]
            ELSE [w |-> r.w, d |-> r.d, buf |-> Drop(s.buf, r.ret), ok |-> TRUE])

RECURSIVE write_all_loop(_, _, _)
\* the loop's state after at most k more iterations (k iterations are k \div 2
\* iterations and then the rest)
write_all_loop(s, max, k) ==
    IF k = 0 \/ s.buf = <<>> \/ ~s.ok THEN s
    ELSE IF k = 1 THEN write_all_step(s, max)
    ELSE With(write_all_loop(s, max, k \div 2), LAMBDA t :
            write_all_loop(t, max, k - k \div 2))

\* std::io::Write::write_all over MultipartWriter: loop until buf is empty,
\* fail (WriteZero) when a write returns 0.  Every iteration that does not
\* fail takes a byte of buf, so Len(buf) iterations end the loop.
write_all(w, d, max, buf) ==
    With(write_all_loop([w |-> w, d |-> d, buf |-> buf, ok |-> TRUE], max, Len(buf)),
         LAMBDA s : [w |-> s.w, d |-> s.d, ok |-> s.ok])

-----------------------------------------------------------------------------
(* multipart.rs: MultipartReader *)

\* MultipartReader::new: open part 0 (the caller checks that it exists)
MultipartReader_new ==
    [file_number |-> 0, open |-> 0, pos |-> 0, file_size |-> 0]

\* a read that opens the next part without checking that it exists, and so
\* fails (NotFound) at the end of the stream
MultipartReader_read_err(r, d, n) ==
    LET size == Min(n, Len(d[r.open]) - r.pos) IN
    IF size = 0
    THEN LET next == r.file_number + 1 IN
         IF next \notin DOMAIN d
         THEN [r |-> [r EXCEPT !.file_number = next], data |-> <<>>, ok |-> FALSE]
         ELSE LET size2 == Min(n, Len(d[next])) IN
              [r    |-> [file_number |-> next, open |-> next, pos |-> size2,
                         file_size |-> size2],
               data |-> Take(d[next], size2),
               ok   |-> TRUE]
    ELSE [r    |-> [r EXCEPT !.pos = @ + size, !.file_size = @ + size],
          data |-> SubSeq(d[r.open], r.pos + 1, r.pos + size),
          ok   |-> TRUE]

\* a read that reports the end of the stream at the end of the first part
MultipartReader_read_onepart(r, d, n) ==
    LET size == Min(n, Len(d[r.open]) - r.pos) IN
    [r    |-> [r EXCEPT !.pos = @ + size, !.file_size = @ + size],
     data |-> SubSeq(d[r.open], r.pos + 1, r.pos + size),
     ok   |-> TRUE]

RECURSIVE MultipartReader_read(_, _, _)
\* <MultipartReader as Read>::read with a buffer of n bytes.  `open` is the part
\* the open handle belongs to and `pos` the handle's offset; file_number is the
\* field, which is ahead of `open` once a next part was found missing.
MultipartReader_read(r, d, n) ==
    LET size == Min(n, Len(d[r.open]) - r.pos) IN
    IF size = 0
    THEN LET next == r.file_number + 1 IN
         IF next \notin DOMAIN d
         THEN [r |-> [r EXCEPT !.file_number = next], data |-> <<>>, ok |-> TRUE]
         ELSE MultipartReader_read(
                  [file_number |-> next, open |-> next, pos |-> 0, file_size |-> 0],
                  d, n)
    ELSE [r    |-> [r EXCEPT !.pos = @ + size, !.file_size = @ + size],
          data |-> SubSeq(d[r.open], r.pos + 1, r.pos + size),
          ok   |-> TRUE]

-----------------------------------------------------------------------------
(* storage.rs: StorageOperation, and its bincode encoding                    *)

EnterDirectory(name) == [tag |-> "EnterDirectory", name |-> name, size |-> 0]
LeaveDirectory == [tag |-> "LeaveDirectory", name |-> <<>>, size |-> 0]
CreateFile(name, size) == [tag |-> "CreateFile", name |-> name, size |-> size]

RECURSIVE LE(_, _)
\* n as w little-endian bytes (the bytes above the w-th are dropped, as a cast
\* to a w-byte integer does)
LE(n, w) == IF w = 0 THEN <<>> ELSE <<n % 256>> \o LE(n \div 256, w - 1)

\* Lengths and sizes at or above this value are all read as this value: it is
\* larger than any stream of the model, and the code only compares them with
\* what is left of the stream.
Saturated == 2 ^ 30

RECURSIVE FromLE(_)
\* the number a little-endian byte string stands for
FromLE(bs) ==
    IF bs = <<>> THEN 0
    ELSE LET hi == FromLE(Tail(bs)) IN
         IF hi >= Saturated \div 256 THEN Saturated ELSE bs[1] + 256 * hi

IsCont(b) == b >= 128 /\ b <= 191

RECURSIVE IsUtf8(_)
\* core::str::from_utf8 accepts bs
IsUtf8(bs) ==
    IF bs = <<>> THEN TRUE
    ELSE LET b == bs[1]
             n == Len(bs)
         IN
         IF b < 128 THEN IsUtf8(Tail(bs))
         ELSE IF b >= 194 /\ b <= 223
         THEN n >= 2 /\ IsCont(bs[2]) /\ IsUtf8(Drop(bs, 2))
         ELSE IF b >= 224 /\ b <= 239
         THEN /\ n >= 3
              /\ bs[2] >= (IF b = 224 THEN 160 ELSE 128)
              /\ bs[2] <= (IF b = 237 THEN 159 ELSE 191)
              /\ IsCont(bs[3])
              /\ IsUtf8(Drop(bs, 3))
         ELSE IF b >= 240 /\ b <= 244
         THEN /\ n >= 4
              /\ bs[2] >= (IF b = 240 THEN 144 ELSE 128)
              /\ bs[2] <= (IF b = 244 THEN 143 ELSE 191)
              /\ IsCont(bs[3])
              /\ IsCont(bs[4])
              /\ IsUtf8(Drop(bs, 4))
         ELSE FALSE

\* an encoding of a String with its length in 4 bytes
SerializeString_u32(name) == LE(Len(name), 4) \o name

\* bincode's encoding of a String: u64 length, then the UTF-8 bytes
SerializeString(name) == LE(Len(name), 8) \o name

\* bincode::serialize of a StorageOperation: u32 variant index, then the fields
Serialize(op) ==
    CASE op.tag = "EnterDirectory" -> LE(0, 4) \o SerializeString(op.name)
      [] op.tag = "LeaveDirectory" -> LE(1, 4)
      [] op.tag = "CreateFile"     ->
             LE(2, 4) \o SerializeString(op.name) \o LE(op.size, 8)

\* bincode's decoding of a String at the head of bs: [ok, name, rest]
DeserializeString(bs) ==
    IF Len(bs) < 8
    THEN [ok |-> FALSE, name |-> <<>>, rest |-> <<>>]
    ELSE LET len == FromLE(Take(bs, 8)) IN
         IF len > Len(bs) - 8 \/ ~IsUtf8(SubSeq(bs, 9, 8 + len))
         THEN [ok |-> FALSE, name |-> <<>>, rest |-> <<>>]
         ELSE [ok |-> TRUE, name |-> SubSeq(bs, 9, 8 + len),
               rest |-> Drop(bs, 8 + len)]

\* bincode::deserialize::<StorageOperation>: [ok, op].  Bytes after the value
\* are ignored, as bincode::deserialize allows trailing bytes.
Deserialize(bs) ==
    LET bad == [ok |-> FALSE, op |-> LeaveDirectory] IN
    IF Len(bs) < 4 THEN bad
    ELSE LET tag  == FromLE(Take(bs, 4))
             body == Drop(bs, 4)
         IN
         CASE tag = 0 ->
                 LET n == DeserializeString(body) IN
                 IF n.ok THEN [ok |-> TRUE, op |-> EnterDirectory(n.name)] ELSE bad
           [] tag = 1 -> [ok |-> TRUE, op |-> LeaveDirectory]
           [] tag = 2 ->
                 LET n == DeserializeString(body) IN
                 IF n.ok /\ Len(n.rest) >= 8
                 THEN [ok |-> TRUE,
                       op |-> CreateFile(n.name, FromLE(Take(n.rest, 8)))]
                 ELSE bad
           [] OTHER -> bad

-----------------------------------------------------------------------------
(* struct_stream.rs: StructWriter over MultipartWriter *)

\* StructWriter::write: the u32 length prefix, then the payload, each by write_all
StructWriter_write(w, d, max, op) ==
    LET s_bytes == Serialize(op)
        s_size  == Len(s_bytes)
    IN  With(write_all(w, d, max, LE(s_size, 4)), LAMBDA a :
            IF ~a.ok THEN a ELSE write_all(a.w, a.d, max, s_bytes))

\* StructWriter::write_bytes
StructWriter_write_bytes(w, d, max, bytes) == write_all(w, d, max, bytes)

-----------------------------------------------------------------------------
(* struct_stream.rs: StructReader, a BufReader over MultipartReader *)

\* std::io::BufReader's default capacity
BufCap == 8192

\* BufReader::read with a buffer of n bytes; st = [mr, buf]
BufReader_read(st, d, n) ==
    IF st.buf = <<>> /\ n >= BufCap
    THEN With(MultipartReader_read(st.mr, d, n), LAMBDA r :
            [st |-> [st EXCEPT !.mr = r.r], data |-> r.data, ok |-> r.ok])
    ELSE With(IF st.buf = <<>>
              THEN MultipartReader_read(st.mr, d, BufCap)
              ELSE [r |-> st.mr, data |-> st.buf, ok |-> TRUE],
              LAMBDA r :
                LET nread == Min(n, Len(r.data)) IN
                [st   |-> [mr |-> r.r, buf |-> Drop(r.data, nread)],
                 data |-> Take(r.data, nread),
                 ok   |-> r.ok])

\* a read_exact that gives up after one read, returning what it got
read_exact_once(st, d, n) ==
    IF n = 0
    THEN [st |-> st, data |-> <<>>, ok |-> TRUE]
    ELSE LET r == BufReader_read(st, d, n) IN
         [st |-> r.st, data |-> r.data, ok |-> r.ok /\ Len(r.data) > 0]

\* default_read_exact's loop body, on the loop's state [st, n, acc, ok] (n bytes
\* still to read, acc what is in so far): nothing once the loop has ended, else
\* one read; a read of 0 bytes ends the loop with the buffer not full
default_read_exact_step(s, d) ==
    IF s.n = 0 \/ ~s.ok
    THEN s
    ELSE With(BufReader_read(s.st, d, s.n), LAMBDA r :
            IF ~r.ok \/ Len(r.data) = 0
            THEN [st |-> r.st, n |-> s.n, acc |-> s.acc, ok |-> FALSE]
            ELSE [st |-> r.st, n |-> s.n - Len(r.data), acc |-> s.acc \o r.data,
                  ok |-> TRUE])

RECURSIVE default_read_exact_loop(_, _, _)
\* the loop's state after at most k more iterations
default_read_exact_loop(s, d, k) ==
    IF k = 0 \/ s.n = 0 \/ ~s.ok THEN s
    ELSE IF k = 1 THEN default_read_exact_step(s, d)
    ELSE With(default_read_exact_loop(s, d, k \div 2), LAMBDA t :
            default_read_exact_loop(t, d, k - k \div 2))

\* std::io::default_read_exact: read until n more bytes are in, fail
\* (UnexpectedEof) when a read returns 0 first; acc is what is in so far.
\* Every iteration but the last delivers a byte that is buffered or on disk,
\* so the loop ends within one iteration more than there are such bytes.
default_read_exact(st, d, n, acc) ==
    With(default_read_exact_loop([st |-> st, n |-> n, acc |-> acc, ok |-> TRUE], d,
                                 Min(n, Len(st.buf) + Len(AllParts(d)) + 1)),
         LAMBDA s : [st |-> s.st, data |-> s.acc, ok |-> s.ok /\ s.n = 0])

\* BufReader::read_exact of n bytes: [st, data, ok]; on failure data is the
\* part that had been read
read_exact(st, d, n) ==
    IF Len(st.buf) >= n
    THEN [st |-> [st EXCEPT !.buf = Drop(@, n)], data |-> Take(st.buf, n),
          ok |-> TRUE]
    ELSE default_read_exact(st, d, n, <<>>)

\* StructReader::next::<StorageOperation>: [st, ok, op, why]
StructReader_next(st, d) ==
    With(read_exact(st, d, 4), LAMBDA p :
      IF ~p.ok
      THEN [st |-> p.st, ok |-> FALSE, op |-> LeaveDirectory,
            why |-> IF p.data = <<>> THEN "eof" ELSE "short_prefix"]
      ELSE With(FromLE(p.data), LAMBDA s_size :
           With(read_exact(p.st, d, s_size), LAMBDA q :
             IF ~q.ok
             THEN [st |-> q.st, ok |-> FALSE, op |-> LeaveDirectory,
                   why |-> "short_payload"]
             ELSE With(Deserialize(q.data), LAMBDA v :
                    [st |-> q.st, ok |-> v.ok, op |-> v.op,
                     why |-> IF v.ok THEN "none" ELSE "decode"]))))

\* StructReader::next_bytes(size): [st, data, ok]
StructReader_next_bytes(st, d, size) == read_exact(st, d, size)

-----------------------------------------------------------------------------
(* File systems: a function from paths (sequences of names) to nodes *)

Dir == [kind |-> "dir", data |-> <<>>]
File(bytes) == [kind |-> "file", data |-> bytes]

\* a join that lets the name replace the path
join_replace(path, name) == <<name>>

\* PathBuf::join with a name of one normal component, the only names here
join(path, name) == Append(path, name)

\* a pop that keeps the last component of a path
pop_keep(path) == IF Len(path) <= 1 THEN path ELSE Take(path, Len(path) - 1)

\* PathBuf::pop: drop the last component; the root stays as it is
pop(path) == IF path = <<>> THEN path ELSE Take(path, Len(path) - 1)

\* the names of the entries of directory path
Children(fs, path) ==
    {q[Len(q)] : q \in {q \in DOMAIN fs : Len(q) = Len(path) + 1 /\ pop(q) = path}}

\* std::fs::create_dir_all: [ok, fs]
create_dir_all(fs, path) ==
    LET prefixes == {Take(path, k) : k \in 0..Len(path)} IN
    [ok |-> \A q \in prefixes : q \in DOMAIN fs => fs[q].kind = "dir",
     fs |-> [q \in DOMAIN fs \cup prefixes |-> IF q \in DOMAIN fs THEN fs[q] ELSE Dir]]

\* a create_dir that accepts a directory that is already there
create_dir_merge(fs, path) ==
    [ok |-> /\ path \in DOMAIN fs => fs[path].kind = "dir"
            /\ pop(path) \in DOMAIN fs
            /\ fs[pop(path)].kind = "dir",
     fs |-> IF path \in DOMAIN fs THEN fs ELSE (path :> Dir) @@ fs]

\* std::fs::create_dir: fails when path exists or its parent is no directory
create_dir(fs, path) ==
    [ok |-> /\ path \notin DOMAIN fs
            /\ pop(path) \in DOMAIN fs
            /\ fs[pop(path)].kind = "dir",
     fs |-> (path :> Dir) @@ fs]

\* std::fs::File::create in a file system: creates or truncates a file
fs_File_create(fs, path) ==
    [ok |-> /\ path \in DOMAIN fs => fs[path].kind = "file"
            /\ pop(path) \in DOMAIN fs
            /\ fs[pop(path)].kind = "dir",
     fs |-> (path :> File(<<>>)) @@ fs]

-----------------------------------------------------------------------------
(* storage.rs: StorageWriter.  Each operator gives [w, d, ok, items]: the    *)
(* writer and directory afterwards, and the records and spans it wrote.      *)

RecItem(op) == [kind |-> "rec", op |-> op, data |-> <<>>]
SpanItem(bytes) == [kind |-> "span", op |-> LeaveDirectory, data |-> bytes]

\* the buffer of write_file and the span size of interpret: 1 MiB
ChunkSize == 1024 * 1024

\* write_directory up to its loop: the EnterDirectory record
write_directory_enter(w, d, max, dir_name) ==
    With(StructWriter_write(w, d, max, EnterDirectory(dir_name)), LAMBDA r :
        [w |-> r.w, d |-> r.d, ok |-> r.ok,
         items |-> <<RecItem(EnterDirectory(dir_name))>>])

\* a write_directory that ends without a record
write_directory_leave_none(w, d, max) ==
    [w |-> w, d |-> d, ok |-> TRUE, items |-> <<>>]

\* write_directory after its loop: the LeaveDirectory record
write_directory_leave(w, d, max) ==
    With(StructWriter_write(w, d, max, LeaveDirectory), LAMBDA r :
        [w |-> r.w, d |-> r.d, ok |-> r.ok, items |-> <<RecItem(LeaveDirectory)>>])

\* write_file up to its loop: the CreateFile record with the metadata's length
write_file_open(w, d, max, file_name, file_size) ==
    With(StructWriter_write(w, d, max, CreateFile(file_name, file_size)), LAMBDA r :
        [w |-> r.w, d |-> r.d, ok |-> r.ok,
         items |-> <<RecItem(CreateFile(file_name, file_size))>>])

RECURSIVE write_file_copy(_, _, _, _)
\* write_file's loop: the content, read to the end of the file in chunks of at
\* most 1 MiB, each written as a span
write_file_copy(w, d, max, content) ==
    LET bytes_read == Min(Len(content), ChunkSize) IN
    IF bytes_read = 0
    THEN [w |-> w, d |-> d, ok |-> TRUE, items |-> <<>>]
    ELSE With(StructWriter_write_bytes(w, d, max, Take(content, bytes_read)),
              LAMBDA r :
                IF ~r.ok
                THEN [w |-> r.w, d |-> r.d, ok |-> FALSE, items |-> <<>>]
                ELSE With(write_file_copy(r.w, r.d, max, Drop(content, bytes_read)),
                          LAMBDA t :
                            [w |-> t.w, d |-> t.d, ok |-> t.ok,
                             items |-> <<SpanItem(Take(content, bytes_read))>>
                                         \o t.items]))

-----------------------------------------------------------------------------
(* storage.rs: StorageReader *)

RECURSIVE read_spans(_, _, _, _)
\* interpret's loop for CreateFile: bytes_left bytes in spans of at most 1 MiB,
\* each written to the file as it arrives; acc is what the file holds so far
read_spans(st, d, bytes_left, acc) ==
    IF bytes_left = 0
    THEN [st |-> st, data |-> acc, ok |-> TRUE]
    ELSE LET bytes_to_read == Min(bytes_left, ChunkSize) IN
         With(StructReader_next_bytes(st, d, bytes_to_read), LAMBDA r :
            IF ~r.ok
            THEN [st |-> r.st, data |-> acc, ok |-> FALSE]
            ELSE read_spans(r.st, d, bytes_left - bytes_to_read, acc \o r.data))

\* interpret after a record was read: r is what StructReader::next returned,
\* fs the file system after create_dir_all(base)
interpret_match(r, d, base, fs) ==
    LET same == [st |-> r.st, base_path |-> base, out |-> fs,
                 status |-> "running", stop |-> "none"]
    IN
    CASE r.op.tag = "EnterDirectory" ->
            LET path == join(base, r.op.name)
                m    == create_dir(fs, path)
            IN  IF ~m.ok
                THEN [same EXCEPT !.status = "err", !.stop = "io"]
                ELSE [same EXCEPT !.base_path = path, !.out = m.fs]
      [] r.op.tag = "LeaveDirectory" ->
            [same EXCEPT !.base_path = pop(base)]
      [] r.op.tag = "CreateFile" ->
            LET path == join(base, r.op.name)
                f    == fs_File_create(fs, path)
            IN  IF ~f.ok
                THEN [same EXCEPT !.status = "err", !.stop = "io"]
                ELSE With(read_spans(r.st, d, r.op.size, <<>>), LAMBDA b :
                        [same EXCEPT
                           !.st = b.st,
                           !.out = [f.fs EXCEPT ![path] = File(b.data)],
                           !.status = IF b.ok THEN "running" ELSE "err",
                           !.stop = IF b.ok THEN "none" ELSE "short_span"])

\* StorageReader::interpret, one call up to its tail call:
\* [st, base_path, out, status, stop], status "running" where it calls itself
interpret_code(st, d, base, fs) ==
    With(create_dir_all(fs, base), LAMBDA c :
      IF ~c.ok
      THEN [st |-> st, base_path |-> base, out |-> fs, status |-> "err",
            stop |-> "io"]
      ELSE With(StructReader_next(st, d), LAMBDA r :
             IF ~r.ok
             THEN [st |-> r.st, base_path |-> base, out |-> c.fs,
                   status |-> "ok", stop |-> r.why]
             ELSE interpret_match(r, d, base, c.fs)))

\* an interpret that stays in the directory on LeaveDirectory
interpret_nopop(st, d, base, fs) ==
    LET r == interpret_code(st, d, base, fs)
        n == StructReader_next(st, d)
    IN  IF n.ok /\ n.op.tag = "LeaveDirectory"
        THEN [r EXCEPT !.base_path = base]
        ELSE r

\* an interpret that stops successfully when a span is cut short
interpret_lenient(st, d, base, fs) ==
    LET r == interpret_code(st, d, base, fs) IN
    IF r.stop = "short_span" THEN [r EXCEPT !.status = "ok"] ELSE r

\* an interpret that reports a record it cannot read as an error
interpret_strict(st, d, base, fs) ==
    LET r == interpret_code(st, d, base, fs) IN
    IF r.status = "ok" /\ r.stop # "eof" THEN [r EXCEPT !.status = "err"] ELSE r

\* an interpret that tries again when a record cannot be read
interpret_retry(st, d, base, fs) ==
    LET r == interpret_code(st, d, base, fs) IN
    IF r.status = "ok" /\ r.stop # "eof"
    THEN [r EXCEPT !.status = "running", !.st = st]
    ELSE r

\* StorageReader::interpret
interpret(st, d, base, fs) == interpret_code(st, d, base, fs)

-----------------------------------------------------------------------------
(* The multipart layer on its own: a writer fed arbitrary buffers, then a    *)
(* reader over the directory it produced (multipart.rs, test_multipart).     *)

NoRet == [ok |-> TRUE, n |-> 0]

\* no call is being taken step by step
StepsIdle ==
    /\ pc = "idle"
    /\ arg = <<>>
    /\ w_files = {}
    /\ r_files = {}
    /\ rolls = 0

\* the archiver and the restorer, not in use
StorageIdle ==
    /\ src = <<>>
    /\ stack = <<>>
    /\ cur_file = <<>>
    /\ base_path = <<>>
    /\ out = <<>>
    /\ status = "idle"
    /\ stop = "none"

InitMP ==
    /\ max_file_size \in 1..MaxM
    /\ disk = <<>>
    /\ mw = [file_number |-> 0, file_size |-> 0]
    /\ w_ret = 0
    /\ sent = <<>>
    /\ rs = [mr |-> MultipartReader_new, buf |-> <<>>]
    /\ r_ret = NoRet
    /\ r_out = <<>>
    /\ r_eofs = 0
    /\ wlog = <<>>
    /\ rlog = <<>>
    /\ StorageIdle
    /\ StepsIdle
    /\ phase = "init"

MPNewWriter ==
    /\ phase = "init"
    /\ \E r \in {MultipartWriter_new(disk)} :
       /\ mw' = r.w
       /\ disk' = r.d
    /\ phase' = "writing"
    /\ UNCHANGED <<max_file_size, w_ret, sent, rvars, fvars, svars, hvars>>

\* one call of write(buf)
MPWrite(buf) ==
    /\ phase = "writing"
    /\ Len(sent) + Len(buf) <= MaxStream
    /\ \E r \in {MultipartWriter_write(mw, disk, max_file_size, buf)} :
       /\ mw' = r.w
       /\ disk' = r.d
       /\ w_ret' = r.ret
       /\ sent' = sent \o Take(buf, r.ret)
    /\ UNCHANGED <<max_file_size, rvars, fvars, svars, phase, hvars>>

\* one call of write_all(buf)
MPWriteAll(buf) ==
    /\ phase = "writing"
    /\ Len(sent) + Len(buf) <= MaxStream
    /\ \E r \in {write_all(mw, disk, max_file_size, buf)} :
       /\ r.ok
       /\ mw' = r.w
       /\ disk' = r.d
       /\ sent' = sent \o buf
    /\ UNCHANGED <<max_file_size, w_ret, rvars, fvars, svars, phase, hvars>>

\* the writer is dropped and a MultipartReader opened on the same directory
MPNewReader ==
    /\ phase = "writing"
    /\ 0 \in DOMAIN disk
    /\ rs' = [mr |-> MultipartReader_new, buf |-> <<>>]
    /\ phase' = "reading"
    /\ UNCHANGED <<max_file_size, disk, wvars, r_ret, r_out, r_eofs, fvars,
                   svars, hvars>>

\* one call of read with a buffer of n bytes
MPRead(n) ==
    /\ phase = "reading"
    /\ r_eofs < MaxEofReads
    /\ \E r \in {MultipartReader_read(rs.mr, disk, n)} :
       /\ rs' = [rs EXCEPT !.mr = r.r]
       /\ r_ret' = [ok |-> r.ok, n |-> Len(r.data)]
       /\ r_out' = r_out \o r.data
       /\ r_eofs' = IF n > 0 /\ Len(r.data) = 0 THEN r_eofs + 1 ELSE r_eofs
    /\ UNCHANGED <<max_file_size, disk, wvars, fvars, svars, phase, hvars>>

NextMP ==
    \/ MPNewWriter
    \/ \E buf \in SeqsUpTo(ByteSet, MaxBuf) : MPWrite(buf)
    \/ \E buf \in SeqsUpTo(ByteSet, MaxBuf) : MPWriteAll(buf)
    \/ MPNewReader
    \/ \E n \in 1..MaxBuf : MPRead(n)

SpecMP == InitMP /\ [][NextMP]_vars

-----------------------------------------------------------------------------
(* The framed channel: records and spans written through StructWriter over   *)
(* a MultipartWriter, then read back in the same order through StructReader  *)
(* over a MultipartReader (struct_stream.rs, test_mix).                      *)

\* most records and spans written to one framed stream
MaxItems == 3

\* the part sizes tried above the multipart layer: smaller than a length
\* prefix, inside a record, and the command line's unit (1 MiB)
PartSizes == (1..MaxM) \cup {7, 1024 * 1024}

NameA == <<97>>
NameB == <<98>>

FrameOps == {EnterDirectory(NameA), LeaveDirectory, CreateFile(NameB, 2)}
FrameSpans == {<<>>, <<1, 2>>, <<3>>}

InitFrame ==
    /\ max_file_size \in PartSizes
    /\ disk = <<>>
    /\ mw = [file_number |-> 0, file_size |-> 0]
    /\ w_ret = 0
    /\ sent = <<>>
    /\ rs = [mr |-> MultipartReader_new, buf |-> <<>>]
    /\ r_ret = NoRet
    /\ r_out = <<>>
    /\ r_eofs = 0
    /\ wlog = <<>>
    /\ rlog = <<>>
    /\ StorageIdle
    /\ StepsIdle
    /\ phase = "init"

FNewWriter ==
    /\ phase = "init"
    /\ \E r \in {MultipartWriter_new(disk)} :
       /\ mw' = r.w
       /\ disk' = r.d
    /\ phase' = "fwriting"
    /\ UNCHANGED <<max_file_size, w_ret, sent, rvars, fvars, svars, hvars>>

\* StructWriter::write(op)
FWrite(op) ==
    /\ phase = "fwriting"
    /\ Len(wlog) < MaxItems
    /\ \E r \in {StructWriter_write(mw, disk, max_file_size, op)} :
       /\ r.ok
       /\ mw' = r.w
       /\ disk' = r.d
    /\ wlog' = Append(wlog, RecItem(op))
    /\ UNCHANGED <<max_file_size, w_ret, sent, rvars, rlog, svars, phase,
                   hvars>>

\* StructWriter::write_bytes(bytes)
FWriteBytes(bytes) ==
    /\ phase = "fwriting"
    /\ Len(wlog) < MaxItems
    /\ \E r \in {StructWriter_write_bytes(mw, disk, max_file_size, bytes)} :
       /\ r.ok
       /\ mw' = r.w
       /\ disk' = r.d
    /\ wlog' = Append(wlog, SpanItem(bytes))
    /\ UNCHANGED <<max_file_size, w_ret, sent, rvars, rlog, svars, phase,
                   hvars>>

\* StructReader::new(MultipartReader::new(..)) on the directory written
FNewReader ==
    /\ phase = "fwriting"
    /\ rs' = [mr |-> MultipartReader_new, buf |-> <<>>]
    /\ phase' = "freading"
    /\ UNCHANGED <<max_file_size, disk, wvars, r_ret, r_out, r_eofs, fvars,
                   svars, hvars>>

\* StructReader::next(), where the writer wrote a record
FNext ==
    /\ phase = "freading"
    /\ Len(rlog) < Len(wlog)
    /\ wlog[Len(rlog) + 1].kind = "rec"
    /\ \E r \in {StructReader_next(rs, disk)} :
       /\ rs' = r.st
       /\ rlog' = Append(rlog, [ok |-> r.ok, item |-> RecItem(r.op)])
    /\ UNCHANGED <<max_file_size, disk, wvars, r_ret, r_out, r_eofs, wlog,
                   svars, phase, hvars>>

\* StructReader::next_bytes(n), where the writer wrote a span of n bytes
FNextBytes ==
    /\ phase = "freading"
    /\ Len(rlog) < Len(wlog)
    /\ wlog[Len(rlog) + 1].kind = "span"
    /\ \E r \in {StructReader_next_bytes(rs, disk, Len(wlog[Len(rlog) + 1].data))} :
       /\ rs' = r.st
       /\ rlog' = Append(rlog, [ok |-> r.ok, item |-> SpanItem(r.data)])
    /\ UNCHANGED <<max_file_size, disk, wvars, r_ret, r_out, r_eofs, wlog,
                   svars, phase, hvars>>

NextFrame ==
    \/ FNewWriter
    \/ \E op \in FrameOps : FWrite(op)
    \/ \E bytes \in FrameSpans : FWriteBytes(bytes)
    \/ FNewReader
    \/ FNext
    \/ FNextBytes

SpecFrame == InitFrame /\ [][NextFrame]_vars

-----------------------------------------------------------------------------
(* Backup and restore: main.rs backup, then restore of what it wrote.        *)
(* write_directory's recursion is the stack of its open calls; read_dir      *)
(* yields the entries of a directory in an order of its own choosing.        *)

\* most files and directories below the root of a tree
MaxNodes == 3

RootName == <<114>>
Names == {NameA, NameB}
FileContents == {<<>>, <<8, 9>>}
NodeVals == {Dir} \cup {File(c) : c \in FileContents}

\* the root restore is given
OutRoot == << <<111>> >>

RECURSIVE TreesUpTo(_)
\* the trees under RootName with at most k files and directories below the root
TreesUpTo(k) ==
    IF k = 0
    THEN {(<<RootName>> :> Dir)}
    ELSE LET prev == TreesUpTo(k - 1) IN
         prev \cup
         UNION {{(join(x[1], x[2]) :> x[3]) @@ t :
                    x \in {y \in (DOMAIN t) \X Names \X NodeVals :
                             /\ t[y[1]].kind = "dir"
                             /\ join(y[1], y[2]) \notin DOMAIN t}}
                : t \in prev}

Trees == TreesUpTo(MaxNodes)

\* everything but the tree and the part size, before backup is called
InitRest ==
    /\ disk = <<>>
    /\ mw = [file_number |-> 0, file_size |-> 0]
    /\ w_ret = 0
    /\ sent = <<>>
    /\ rs = [mr |-> MultipartReader_new, buf |-> <<>>]
    /\ r_ret = NoRet
    /\ r_out = <<>>
    /\ r_eofs = 0
    /\ wlog = <<>>
    /\ rlog = <<>>
    /\ stack = <<>>
    /\ cur_file = <<>>
    /\ base_path = <<>>
    /\ out = (<<>> :> Dir)
    /\ status = "idle"
    /\ stop = "none"
    /\ StepsIdle
    /\ phase = "init"

Init ==
    /\ max_file_size \in PartSizes
    /\ src \in Trees
    /\ InitRest

\* the origin backup is given: the tree's root directory
Origin(t) == CHOOSE q \in DOMAIN t : Len(q) = 1

Top == stack[Len(stack)]

\* the writer and the directory after a StorageWriter step r
Wrote(r) ==
    /\ r.ok
    /\ mw' = r.w
    /\ disk' = r.d
    /\ wlog' = wlog \o r.items

\* backup: MultipartWriter::new, StorageWriter::new, and write_directory(origin)
\* up to its loop
BackupStart ==
    /\ phase = "init"
    /\ \E n \in {MultipartWriter_new(disk)} :
       \E r \in {write_directory_enter(n.w, n.d, max_file_size, Origin(src)[1])} :
         Wrote(r)
    /\ stack' = <<[path |-> Origin(src), todo |-> Children(src, Origin(src))]>>
    /\ phase' = "backup"
    /\ UNCHANGED <<max_file_size, w_ret, sent, rvars, rlog, src, cur_file,
                   ivars, hvars>>

\* the loop of write_directory reaches a subdirectory: the recursive call
WalkDirectory ==
    /\ phase = "backup"
    /\ cur_file = <<>>
    /\ \E name \in Top.todo :
         LET path == join(Top.path, name) IN
         /\ src[path].kind = "dir"
         /\ \E r \in {write_directory_enter(mw, disk, max_file_size, name)} :
              Wrote(r)
         /\ stack' = Append([stack EXCEPT ![Len(stack)].todo = @ \ {name}],
                            [path |-> path, todo |-> Children(src, path)])
    /\ UNCHANGED <<max_file_size, w_ret, sent, rvars, rlog, src, cur_file,
                   ivars, phase, hvars>>

\* the loop of write_directory reaches a file: write_file up to its loop
WalkFileOpen ==
    /\ phase = "backup"
    /\ cur_file = <<>>
    /\ \E name \in Top.todo :
         LET path == join(Top.path, name) IN
         /\ src[path].kind = "file"
         /\ \E r \in {write_file_open(mw, disk, max_file_size, name,
                                      Len(src[path].data))} : Wrote(r)
         /\ stack' = [stack EXCEPT ![Len(stack)].todo = @ \ {name}]
         /\ cur_file' = path
    /\ UNCHANGED <<max_file_size, w_ret, sent, rvars, rlog, src, ivars,
                   phase, hvars>>

\* write_file's loop, on the content the file has when it is read
WalkFileCopy ==
    /\ phase = "backup"
    /\ cur_file # <<>>
    /\ \E r \in {write_file_copy(mw, disk, max_file_size, src[cur_file].data)} :
         Wrote(r)
    /\ cur_file' = <<>>
    /\ UNCHANGED <<max_file_size, w_ret, sent, rvars, rlog, src, stack,
                   ivars, phase, hvars>>

\* the loop of write_directory is over: the LeaveDirectory record and the
\* return; when the root's call returns, backup returns
WalkLeave ==
    /\ phase = "backup"
    /\ cur_file = <<>>
    /\ Top.todo = {}
    /\ \E r \in {write_directory_leave(mw, disk, max_file_size)} : Wrote(r)
    /\ stack' = Take(stack, Len(stack) - 1)
    /\ phase' = IF Len(stack) = 1 THEN "backed" ELSE "backup"
    /\ UNCHANGED <<max_file_size, w_ret, sent, rvars, rlog, src, cur_file,
                   ivars, hvars>>

\* restore: MultipartReader::new, StorageReader::new, before interpret
RestoreStart ==
    /\ phase \in {"backed", "damaged"}
    /\ 0 \in DOMAIN disk
    /\ rs' = [mr |-> MultipartReader_new, buf |-> <<>>]
    /\ base_path' = OutRoot
    /\ status' = "running"
    /\ phase' = "restore"
    /\ UNCHANGED <<max_file_size, disk, wvars, r_ret, r_out, r_eofs, fvars,
                   bvars,
                   out, stop, hvars>>

\* one call of interpret
Interpret ==
    /\ phase = "restore"
    /\ status = "running"
    /\ \E r \in {interpret(rs, disk, base_path, out)} :
       /\ rs' = r.st
       /\ base_path' = r.base_path
       /\ out' = r.out
       /\ status' = r.status
       /\ stop' = r.stop
    /\ UNCHANGED <<max_file_size, disk, wvars, r_ret, r_out, r_eofs, fvars,
                   bvars,
                   phase, hvars>>

Backup ==
    \/ BackupStart
    \/ WalkDirectory
    \/ WalkFileOpen
    \/ WalkFileCopy
    \/ WalkLeave

Restore ==
    \/ RestoreStart
    \/ Interpret

Next == Backup \/ Restore

Spec == Init /\ [][Next]_vars

-----------------------------------------------------------------------------
(* Backup of a tree that another process writes to while backup runs *)

\* another process appends to, or cuts, the file write_file has opened and taken
\* the length of, before write_file reads it
SrcModify ==
    /\ phase = "backup"
    /\ cur_file # <<>>
    /\ Len(src[cur_file].data) = wlog[Len(wlog)].op.size
    /\ \E data \in {Append(src[cur_file].data, 9)}
                   \cup {Take(src[cur_file].data, Len(src[cur_file].data) - 1)} :
         /\ data # src[cur_file].data
         /\ src' = [src EXCEPT ![cur_file].data = data]
    /\ UNCHANGED <<max_file_size, disk, wvars, rvars, fvars, stack, cur_file,
                   ivars,
                   phase, hvars>>

NextRace == Backup \/ SrcModify

SpecRace == Init /\ [][NextRace]_vars

-----------------------------------------------------------------------------
(* Restore of a backup that was damaged after it was written: cut short, or  *)
(* with one byte overwritten.                                                *)

\* most files and directories below the root of a tree whose backup is damaged
MaxDamagedNodes == 1

\* where part n starts in the stream: the bytes of the parts before it
Offset(d, n) == Len(Concat(d, 0, n - 1))

\* the directory with the stream cut to its first k bytes: the parts that
\* start at or after k are gone (part 0 stays), the part holding k is cut
Truncated(d, k) ==
    [n \in {m \in DOMAIN d : m = 0 \/ Offset(d, m) < k}
       |-> Take(d[n], Min(Len(d[n]), k - Offset(d, n)))]

\* the directory with byte i of the stream (counted from 0) overwritten by 255:
\* not a byte of any UTF-8 text, and as a byte of a length, a size or a tag it
\* makes that number larger
Corrupted(d, i) ==
    [n \in DOMAIN d |->
        [j \in 1..Len(d[n]) |-> IF Offset(d, n) + j - 1 = i THEN 255 ELSE d[n][j]]]

InitDamaged ==
    /\ max_file_size \in PartSizes
    /\ src \in TreesUpTo(MaxDamagedNodes)
    /\ InitRest

\* the backup is cut short
Truncate ==
    /\ phase = "backed"
    /\ \E k \in 0..(Len(StreamFrom(disk, 0)) - 1) : disk' = Truncated(disk, k)
    /\ phase' = "damaged"
    /\ UNCHANGED <<max_file_size, wvars, rvars, fvars, svars, hvars>>

\* one byte of the backup is overwritten
Corrupt ==
    /\ phase = "backed"
    /\ \E i \in 0..(Len(StreamFrom(disk, 0)) - 1) : disk' = Corrupted(disk, i)
    /\ phase' = "damaged"
    /\ UNCHANGED <<max_file_size, wvars, rvars, fvars, svars, hvars>>

NextDamaged == Backup \/ Truncate \/ Corrupt \/ Restore

SpecDamaged == InitDamaged /\ [][NextDamaged]_vars

-----------------------------------------------------------------------------
(* The multipart layer read with buffers of any length, the empty buffer     *)
(* included.                                                                 *)

\* one call of read with an empty buffer, while the reader's part number is
\* that of a part (each such call at the end of the stream adds one to it)
MPReadEmpty ==
    /\ rs.mr.file_number \in DOMAIN disk
    /\ MPRead(0)

NextZeroRead ==
    \/ MPNewWriter
    \/ \E buf \in SeqsUpTo(ByteSet, MaxBuf) : MPWrite(buf)
    \/ \E buf \in SeqsUpTo(ByteSet, MaxBuf) : MPWriteAll(buf)
    \/ MPNewReader
    \/ \E n \in 1..MaxBuf : MPRead(n)
    \/ MPReadEmpty

SpecZeroRead == InitMP /\ [][NextZeroRead]_vars

-----------------------------------------------------------------------------
(* Backup run again into the destination directory of an earlier backup,     *)
(* then restore of what the directory holds.                                 *)

\* most entries below the root of a tree backed up in these runs
MaxStaleNodes == 2

StaleTrees == TreesUpTo(MaxStaleNodes)

\* the part sizes of these runs
StaleSizes == {2, 7}

InitStale ==
    /\ max_file_size \in StaleSizes
    /\ src \in StaleTrees
    /\ InitRest

\* backup of tree t into the directory the backup before it wrote: a new
\* MultipartWriter and StorageWriter, and write_directory(origin) up to its loop
BackupAgain(t) ==
    /\ phase = "backed"
    /\ \E n \in {MultipartWriter_new(disk)} :
       \E r \in {write_directory_enter(n.w, n.d, max_file_size, Origin(t)[1])} :
         /\ r.ok
         /\ mw' = r.w
         /\ disk' = r.d
         /\ wlog' = r.items
    /\ src' = t
    /\ stack' = <<[path |-> Origin(t), todo |-> Children(t, Origin(t))]>>
    /\ phase' = "backup"
    /\ UNCHANGED <<max_file_size, w_ret, sent, rvars, rlog, cur_file, ivars,
                   hvars>>

NextStale ==
    \/ Backup
    \/ \E t \in StaleTrees : BackupAgain(t)
    \/ Restore

SpecStale == InitStale /\ [][NextStale]_vars

-----------------------------------------------------------------------------
(* A MultipartReader over a directory that holds any set of numbered part    *)
(* files with part 0 among them, such as {0, 1, 3}.                          *)

\* highest part number in such a directory
MaxGapPart == 3

\* what a part file of such a directory holds
GapContents == {<<>>, <<1>>, <<2, 1>>}

\* the directories: part 0 and any of the parts 1..MaxGapPart
GapDisks ==
    UNION {[{0} \cup S -> GapContents] : S \in SUBSET (1..MaxGapPart)}

InitGap ==
    /\ max_file_size = MaxM
    /\ disk \in GapDisks
    /\ mw = [file_number |-> 0, file_size |-> 0]
    /\ w_ret = 0
    /\ sent = <<>>
    /\ rs = [mr |-> MultipartReader_new, buf |-> <<>>]
    /\ r_ret = NoRet
    /\ r_out = <<>>
    /\ r_eofs = 0
    /\ wlog = <<>>
    /\ rlog = <<>>
    /\ StorageIdle
    /\ StepsIdle
    /\ phase = "init"

\* MultipartReader::new on the directory
GapNewReader ==
    /\ phase = "init"
    /\ 0 \in DOMAIN disk
    /\ rs' = [mr |-> MultipartReader_new, buf |-> <<>>]
    /\ phase' = "reading"
    /\ UNCHANGED <<max_file_size, disk, wvars, r_ret, r_out, r_eofs, fvars,
                   svars, hvars>>

NextGap ==
    \/ GapNewReader
    \/ \E n \in 1..MaxBuf : MPRead(n)

SpecGap == InitGap /\ [][NextGap]_vars

-----------------------------------------------------------------------------
(* The multipart layer with each write and read call taken statement by      *)
(* statement, and the File values the writer and the reader hold open.       *)
(* pc = "idle" between calls; inside write it is "w_enter" (line 45),        *)
(* "w_create" (line 50), "w_assign" (the assignment to self.file, line 50)   *)
(* or "w_copy" (line 57); inside read "r_enter" (line 100), "r_open" (line   *)
(* 109) or "r_assign" (the assignment to self.file, line 109).               *)

\* MultipartWriter::new: part 0 is created and its File kept in self.file
SNewWriter ==
    /\ phase = "init"
    /\ \E r \in {MultipartWriter_new(disk)} :
       /\ mw' = r.w
       /\ disk' = r.d
    /\ w_files' = {0}
    /\ phase' = "writing"
    /\ UNCHANGED <<max_file_size, w_ret, sent, rvars, fvars, svars, pc, arg,
                   r_files, rolls>>

\* write(buf) is called
SWriteCall(buf) ==
    /\ phase = "writing"
    /\ pc = "idle"
    /\ Len(sent) + Len(buf) <= MaxStream
    /\ pc' = "w_enter"
    /\ arg' = buf
    /\ rolls' = 0
    /\ UNCHANGED <<max_file_size, disk, wvars, rvars, fvars, svars, phase,
                   w_files, r_files>>

\* lines 46-49: can_write, and file_number += 1 when it is 0
SWriteEnter ==
    /\ pc = "w_enter"
    /\ IF max_file_size - mw.file_size = 0
       THEN /\ mw' = [mw EXCEPT !.file_number = @ + 1]
            /\ pc' = "w_create"
       ELSE /\ mw' = mw
            /\ pc' = "w_copy"
    /\ UNCHANGED <<max_file_size, disk, w_ret, sent, rvars, fvars, svars, phase,
                   arg, w_files, r_files, rolls>>

\* lines 50-52: File::create of the next part returns its File, while
\* self.file still holds the File of the part before
SWriteCreate ==
    /\ pc = "w_create"
    /\ disk' = File_create(disk, mw.file_number)
    /\ w_files' = w_files \cup {mw.file_number}
    /\ rolls' = rolls + 1
    /\ pc' = "w_assign"
    /\ UNCHANGED <<max_file_size, wvars, rvars, fvars, svars, phase, arg, r_files>>

\* a rollover that does not reset file_size
SWriteAssign_noreset ==
    /\ pc = "w_assign"
    /\ w_files' = {mw.file_number}
    /\ pc' = "w_enter"
    /\ UNCHANGED <<max_file_size, disk, wvars, rvars, fvars, svars, phase, arg,
                   r_files, rolls>>

\* lines 50-55: the assignment to self.file drops the File it replaces, which
\* closes it; file_size = 0; then the call of self.write(buf)
SWriteAssign ==
    /\ pc = "w_assign"
    /\ w_files' = {mw.file_number}
    /\ mw' = [mw EXCEPT !.file_size = 0]
    /\ pc' = "w_enter"
    /\ UNCHANGED <<max_file_size, disk, w_ret, sent, rvars, fvars, svars, phase,
                   arg, r_files, rolls>>

\* lines 57-61: the bytes that fit are written, and the call returns
SWriteCopy ==
    /\ pc = "w_copy"
    /\ LET size == Min(Len(arg), max_file_size - mw.file_size) IN
       /\ disk' = [disk EXCEPT ![mw.file_number] = @ \o Take(arg, size)]
       /\ mw' = [mw EXCEPT !.file_size = @ + size]
       /\ w_ret' = size
       /\ sent' = sent \o Take(arg, size)
    /\ pc' = "idle"
    /\ arg' = <<>>
    /\ UNCHANGED <<max_file_size, rvars, fvars, svars, phase, w_files, r_files,
                   rolls>>

\* the writer is dropped, which closes its File, and MultipartReader::new
\* opens part 0
SNewReader ==
    /\ phase = "writing"
    /\ pc = "idle"
    /\ rs' = [mr |-> MultipartReader_new, buf |-> <<>>]
    /\ w_files' = {}
    /\ r_files' = {0}
    /\ phase' = "reading"
    /\ UNCHANGED <<max_file_size, disk, wvars, r_ret, r_out, r_eofs, fvars, svars,
                   pc, arg, rolls>>

\* read is called with a buffer of n bytes
SReadCall(n) ==
    /\ phase = "reading"
    /\ pc = "idle"
    /\ r_eofs < MaxEofReads
    /\ pc' = "r_enter"
    /\ arg' = n
    /\ UNCHANGED <<max_file_size, disk, wvars, rvars, fvars, svars, phase,
                   w_files, r_files, rolls>>

\* lines 100-107 and 113-114: self.file.read(buf); bytes are returned, or the
\* next part is looked for and the call returns 0 when it is not there
SReadEnter ==
    /\ pc = "r_enter"
    /\ LET mr   == rs.mr
           size == Min(arg, Len(disk[mr.open]) - mr.pos)
       IN  IF size > 0
           THEN /\ rs' = [rs EXCEPT !.mr.pos = @ + size, !.mr.file_size = @ + size]
                /\ r_ret' = [ok |-> TRUE, n |-> size]
                /\ r_out' = r_out \o SubSeq(disk[mr.open], mr.pos + 1, mr.pos + size)
                /\ r_eofs' = r_eofs
                /\ pc' = "idle"
                /\ arg' = <<>>
           ELSE /\ rs' = [rs EXCEPT !.mr.file_number = @ + 1]
                /\ r_out' = r_out
                /\ IF (mr.file_number + 1) \in DOMAIN disk
                   THEN /\ pc' = "r_open"
                        /\ arg' = arg
                        /\ r_ret' = r_ret
                        /\ r_eofs' = r_eofs
                   ELSE /\ pc' = "idle"
                        /\ arg' = <<>>
                        /\ r_ret' = [ok |-> TRUE, n |-> 0]
                        /\ r_eofs' = r_eofs + 1
    /\ UNCHANGED <<max_file_size, disk, wvars, fvars, svars, phase, w_files,
                   r_files, rolls>>

\* line 109: File::open of the next part returns its File, while self.file
\* still holds the File of the part before
SReadOpen ==
    /\ pc = "r_open"
    /\ r_files' = r_files \cup {rs.mr.file_number}
    /\ pc' = "r_assign"
    /\ UNCHANGED <<max_file_size, disk, wvars, rvars, fvars, svars, phase, arg,
                   w_files, rolls>>

\* an assignment that keeps the File it replaces open
SReadAssign_leak ==
    /\ pc = "r_assign"
    /\ rs' = [rs EXCEPT !.mr.open = rs.mr.file_number, !.mr.pos = 0,
                         !.mr.file_size = 0]
    /\ pc' = "r_enter"
    /\ UNCHANGED <<max_file_size, disk, wvars, r_ret, r_out, r_eofs, fvars, svars,
                   phase, arg, w_files, r_files, rolls>>

\* lines 109-111: the assignment to self.file drops the File it replaces;
\* file_size = 0; then the call of self.read(buf)
SReadAssign ==
    /\ pc = "r_assign"
    /\ r_files' = {rs.mr.file_number}
    /\ rs' = [rs EXCEPT !.mr.open = rs.mr.file_number, !.mr.pos = 0,
                         !.mr.file_size = 0]
    /\ pc' = "r_enter"
    /\ UNCHANGED <<max_file_size, disk, wvars, r_ret, r_out, r_eofs, fvars, svars,
                   phase, arg, w_files, rolls>>

\* the steps of a write call
SWriteStep == SWriteEnter \/ SWriteCreate \/ SWriteAssign \/ SWriteCopy

\* the steps of a read call
SReadStep == SReadEnter \/ SReadOpen \/ SReadAssign

NextSteps ==
    \/ SNewWriter
    \/ \E buf \in SeqsUpTo(ByteSet, MaxBuf) : SWriteCall(buf)
    \/ SWriteStep
    \/ SNewReader
    \/ \E n \in 1..MaxBuf : SReadCall(n)
    \/ SReadStep

SpecSteps == InitMP /\ [][NextSteps]_vars

-----------------------------------------------------------------------------
(* Restore of a stream that no backup need have written: any records and     *)
(* spans, in any order, into an output root that may hold entries already.   *)

\* the part sizes of the replayed streams
ReplaySizes == {1, 7, 1024 * 1024}

\* the output file systems restore starts from: nothing but the parent of the
\* output root, or the output root with a directory a in it
ReplayOuts ==
    {(<<>> :> Dir),
     (<<>> :> Dir) @@ (OutRoot :> Dir) @@ (join(OutRoot, NameA) :> Dir)}

InitReplay ==
    /\ max_file_size \in ReplaySizes
    /\ disk = <<>>
    /\ mw = [file_number |-> 0, file_size |-> 0]
    /\ w_ret = 0
    /\ sent = <<>>
    /\ rs = [mr |-> MultipartReader_new, buf |-> <<>>]
    /\ r_ret = NoRet
    /\ r_out = <<>>
    /\ r_eofs = 0
    /\ wlog = <<>>
    /\ rlog = <<>>
    /\ src = <<>>
    /\ stack = <<>>
    /\ cur_file = <<>>
    /\ base_path = <<>>
    /\ out \in ReplayOuts
    /\ status = "idle"
    /\ stop = "none"
    /\ StepsIdle
    /\ phase = "init"

\* restore (main.rs) of the stream written so far
ReplayStart ==
    /\ phase = "fwriting"
    /\ rs' = [mr |-> MultipartReader_new, buf |-> <<>>]
    /\ base_path' = OutRoot
    /\ status' = "running"
    /\ phase' = "restore"
    /\ UNCHANGED <<max_file_size, disk, wvars, r_ret, r_out, r_eofs, fvars, bvars,
                   out, stop, hvars>>

NextReplay ==
    \/ FNewWriter
    \/ \E op \in FrameOps : FWrite(op)
    \/ \E bytes \in FrameSpans : FWriteBytes(bytes)
    \/ ReplayStart
    \/ Interpret

SpecReplay == InitReplay /\ [][NextReplay]_vars

-----------------------------------------------------------------------------
(* Backup and restore of one tree: root/{a.txt = "hello", sub/{b.txt =       *)
(* "world"}}, the names and contents as their ASCII bytes.                   *)

ScenarioRoot == <<114, 111, 111, 116>>
ScenarioA == <<97, 46, 116, 120, 116>>
ScenarioSub == <<115, 117, 98>>
ScenarioB == <<98, 46, 116, 120, 116>>

ScenarioTree ==
    (<<ScenarioRoot>> :> Dir)
    @@ (<<ScenarioRoot, ScenarioA>> :> File(<<104, 101, 108, 108, 111>>))
    @@ (<<ScenarioRoot, ScenarioSub>> :> Dir)
    @@ (<<ScenarioRoot, ScenarioSub, ScenarioB>> :> File(<<119, 111, 114, 108, 100>>))

\* the part sizes the tree is backed up with: 5 bytes, and the others
ScenarioSizes == {5} \cup PartSizes

InitScenario ==
    /\ max_file_size \in ScenarioSizes
    /\ src = ScenarioTree
    /\ InitRest

SpecScenario == InitScenario /\ [][Next]_vars

-----------------------------------------------------------------------------
(* Claims about the multipart layer, checked under SpecMP *)

\* the highest part number in the directory
LastPart(d) == CHOOSE n \in DOMAIN d : \A m \in DOMAIN d : m <= n

\* C2: part size bound.  After any sequence of write calls no part file is
\* larger than max_file_size, every part but the highest-numbered one has
\* exactly max_file_size bytes, and the cursor keeps file_size <= max_file_size
\* (file_size being the length of the part the cursor is on).
C2_PartSizeBound ==
    phase \in {"writing", "reading"} =>
        /\ mw.file_size <= max_file_size
        /\ mw.file_number = LastPart(disk)
        /\ mw.file_size = Len(disk[mw.file_number])
        /\ \A n \in DOMAIN disk :
              /\ Len(disk[n]) <= max_file_size
              /\ n # LastPart(disk) => Len(disk[n]) = max_file_size

\* two full parts and a partly filled last one, with room to exceed the cap
C2_Witness ==
    /\ phase = "writing"
    /\ max_file_size = 2
    /\ DOMAIN disk = {0, 1, 2}
    /\ Len(disk[0]) = 2 /\ Len(disk[1]) = 2 /\ Len(disk[2]) = 1

\* C3: multipart stream round trip.  The parts 0..k concatenated in numeric
\* order are the bytes written, in order, and a reader that has read to the
\* end of the stream has delivered exactly those bytes (before that, a prefix).
C3_StreamRoundTrip ==
    phase \in {"writing", "reading"} =>
        /\ DOMAIN disk = 0..LastPart(disk)
        /\ StreamFrom(disk, 0) = sent
        /\ Len(r_out) <= Len(sent) /\ r_out = Take(sent, Len(r_out))
        /\ r_eofs >= 1 => r_out = sent

\* a stream over three parts read to its end
C3_Witness ==
    /\ phase = "reading"
    /\ r_eofs = 1
    /\ Len(sent) = MaxStream
    /\ r_out = sent
    /\ Cardinality(DOMAIN disk) >= 3

\* C5: short-write contract.  One write(buf) call appends to exactly one part
\* and returns the number of bytes appended: min(len(buf), remaining), or
\* min(len(buf), max_file_size) when the current part was full, in which case
\* the part number advances by exactly one and the appended bytes are the
\* whole content of the new part.
C5_ShortWrite ==
    [][\A buf \in SeqsUpTo(ByteSet, MaxBuf) :
          MPWrite(buf) =>
            LET remaining == max_file_size - mw.file_size
                full      == remaining = 0
                n         == IF full THEN Min(Len(buf), max_file_size)
                                     ELSE Min(Len(buf), remaining)
                target    == IF full THEN mw.file_number + 1 ELSE mw.file_number
                before    == IF full THEN <<>> ELSE disk[mw.file_number]
            IN  /\ w_ret' = n
                /\ mw'.file_number = target
                /\ mw'.file_size = (IF full THEN 0 ELSE mw.file_size) + n
                /\ DOMAIN disk' = DOMAIN disk \cup {target}
                /\ disk'[target] = before \o Take(buf, n)
                /\ \A k \in DOMAIN disk : k # target => disk'[k] = disk[k]]_vars

\* a write that found the part full, rolled over and was cut short
C5_Witness ==
    /\ phase = "writing"
    /\ max_file_size = 2
    /\ w_ret = 2
    /\ mw = [file_number |-> 1, file_size |-> 2]
    /\ Len(sent) = 4

\* C6: end of stream on read.  When the open part is exhausted and the file
\* numbered file_number + 1 does not exist, read with a non-empty buffer
\* returns Ok(0), not an error.
C6_EndOfStream ==
    [][\A n \in 1..MaxBuf :
          (/\ MPRead(n)
           /\ rs.mr.pos = Len(disk[rs.mr.open])
           /\ rs.mr.file_number + 1 \notin DOMAIN disk)
          => r_ret' = [ok |-> TRUE, n |-> 0]]_vars

\* the reader has delivered a stream of several parts and then returned 0
C6_Witness ==
    /\ phase = "reading"
    /\ r_eofs = 1
    /\ r_ret = [ok |-> TRUE, n |-> 0]
    /\ rs.mr.open = 1
    /\ Len(r_out) >= 3

-----------------------------------------------------------------------------
(* Claims about the framed channel, checked under SpecFrame *)

\* C4: straddling correctness.  For every part size, the smallest below the
\* 4-byte length prefix, every next() and next_bytes(n) issued in the order and
\* with the span lengths of the writes succeeds and returns the record or the
\* span that was written; so what is read does not depend on the part size.
C4_Straddling ==
    phase = "freading" =>
        \A i \in 1..Len(rlog) : rlog[i] = [ok |-> TRUE, item |-> wlog[i]]

\* a record whose length prefix straddles parts, then a span that straddles
\* parts, then a record: all read back
C4_Witness ==
    /\ phase = "freading"
    /\ max_file_size = 3
    /\ Len(rlog) = 3
    /\ wlog = <<RecItem(CreateFile(NameB, 2)), SpanItem(<<1, 2>>),
                RecItem(LeaveDirectory)>>
    /\ Cardinality(DOMAIN disk) >= 10

-----------------------------------------------------------------------------
(* Claims about backup and restore, checked under Spec *)

\* what restore into OutRoot has to produce from tree t: t below OutRoot
Expected(t) ==
    [q \in {Take(OutRoot, k) : k \in 0..Len(OutRoot)}
           \cup {OutRoot \o p : p \in DOMAIN t}
       |-> IF Len(q) <= Len(OutRoot) THEN Dir ELSE t[Drop(q, Len(OutRoot))]]

\* C1: round-trip identity.  For every tree and every part size, restore of
\* what backup wrote returns success at the end of the stream, and the output
\* root then holds, under the tree's leaf name, the directories, the files and
\* the file contents of the tree, nested as in the tree, and nothing else.
C1_RoundTrip ==
    (phase = "restore" /\ status # "running") =>
        /\ status = "ok"
        /\ stop = "eof"
        /\ base_path = OutRoot
        /\ out = Expected(src)

\* restored with parts of 2 bytes: a directory holding a file of 2 bytes, beside
\* an empty file
C1_Witness ==
    /\ phase = "restore"
    /\ status = "ok"
    /\ max_file_size = 2
    /\ src = (<<RootName>> :> Dir) @@ (<<RootName, NameA>> :> Dir)
             @@ (<<RootName, NameA, NameB>> :> File(<<8, 9>>))
             @@ (<<RootName, NameB>> :> File(<<>>))
    /\ out = Expected(src)

IsRec(item) == item.kind = "rec"

\* the records written so far, in order
Records == [i \in 1..Len(SelectSeq(wlog, IsRec)) |-> SelectSeq(wlog, IsRec)[i].op]

\* among the first k records: EnterDirectory records minus LeaveDirectory records
Depth(k) ==
    Cardinality({i \in 1..k : Records[i].tag = "EnterDirectory"})
    - Cardinality({i \in 1..k : Records[i].tag = "LeaveDirectory"})

\* C9: balanced scopes on the write path.  The record stream of write_directory
\* starts with EnterDirectory(root leaf name); no prefix has more LeaveDirectory
\* than EnterDirectory records (while it runs the difference is the number of
\* open write_directory calls); once it has returned, the stream ends with
\* LeaveDirectory, the two counts are equal, and the root's scope closes only
\* with that last record.
C9_Balanced ==
    phase # "init" =>
        /\ Records[1] = EnterDirectory(RootName)
        /\ \A k \in 1..Len(Records) : Depth(k) >= 0
        /\ phase = "backup" => Depth(Len(Records)) = Len(stack)
        /\ phase # "backup" =>
             /\ Records[Len(Records)] = LeaveDirectory
             /\ Depth(Len(Records)) = 0
             /\ \A k \in 1..(Len(Records) - 1) : Depth(k) > 0

\* write_directory has returned from a tree with a directory in a directory
C9_Witness ==
    /\ phase = "backed"
    /\ Cardinality({i \in 1..Len(Records) : Records[i].tag = "EnterDirectory"}) = 3
    /\ Cardinality({i \in 1..Len(Records) : Records[i].tag = "LeaveDirectory"}) = 3
    /\ \E k \in 1..Len(Records) : Depth(k) = 3

-----------------------------------------------------------------------------
(* Claims about restore of a damaged backup, checked under SpecDamaged *)

\* the bytes of the stream in d that a reader in state r has not consumed
RemainingOf(r, d) ==
    r.buf \o Drop(d[r.mr.open], r.mr.pos) \o StreamFrom(d, r.mr.file_number + 1)

\* the bytes of the stream the restorer has not consumed
Remaining == RemainingOf(rs, disk)

\* the length the next record's prefix declares
DeclaredLen == FromLE(Take(Remaining, 4))

\* why the next record cannot be read, "none" when it can
FailKind ==
    IF Len(Remaining) = 0 THEN "eof"
    ELSE IF Len(Remaining) < 4 THEN "short_prefix"
    ELSE IF DeclaredLen > Len(Remaining) - 4 THEN "short_payload"
    ELSE IF ~Deserialize(SubSeq(Remaining, 5, 4 + DeclaredLen)).ok THEN "decode"
    ELSE "none"

\* the next record, when it can be read
NextOp == Deserialize(SubSeq(Remaining, 5, 4 + DeclaredLen)).op

\* C7: restorer stop policy.  When the next record cannot be read (the stream
\* is at its end, fewer than 4 bytes of length prefix are left, fewer payload
\* bytes are left than the prefix declares, or the payload does not decode to a
\* StorageOperation), interpret returns success; that call creates nothing but
\* base_path itself where it is missing (create_dir_all, before the read), and
\* nothing is created after interpret has returned.
C7_StopPolicy ==
    [][/\ (phase = "restore" /\ status = "running" /\ FailKind # "none") =>
            /\ status' = "ok"
            /\ stop' = FailKind
            /\ base_path' = base_path
            /\ out' = create_dir_all(out, base_path).fs
       /\ (phase = "restore" /\ status # "running") =>
            /\ out' = out
            /\ status' = status]_vars

\* restore stopped successfully at a payload that does not decode, after it had
\* created the root directory of the tree
C7_Witness ==
    /\ phase = "restore"
    /\ status = "ok"
    /\ stop = "decode"
    /\ OutRoot \o <<RootName>> \in DOMAIN out
    /\ base_path = OutRoot \o <<RootName>>

\* C8: a truncated span is an error.  When the next record is CreateFile(name,
\* size) and fewer than size bytes follow it in the stream, interpret returns
\* an error, not success.
C8_TruncatedSpan ==
    [][(/\ phase = "restore"
        /\ status = "running"
        /\ FailKind = "none"
        /\ NextOp.tag = "CreateFile"
        /\ NextOp.size > Len(Remaining) - 4 - DeclaredLen)
       => (status' = "err" /\ stop' = "short_span")]_vars

\* restore failed in a file of 2 bytes of which the backup, cut short, held
\* 1 byte, in parts of 1 byte: the file was created and is empty
C8_Witness ==
    /\ phase = "restore"
    /\ status = "err"
    /\ stop = "short_span"
    /\ max_file_size = 1
    /\ src = (<<RootName>> :> Dir) @@ (<<RootName, NameA>> :> File(<<8, 9>>))
    /\ Len(StreamFrom(disk, 0)) =
         4 + Len(Serialize(EnterDirectory(RootName)))
         + 4 + Len(Serialize(CreateFile(NameA, 2))) + 1
    /\ out[OutRoot \o <<RootName, NameA>>] = File(<<>>)

-----------------------------------------------------------------------------
(* Claims about backup of a tree that is being written to, checked under SpecRace *)

RECURSIVE SpanLen(_)
\* the bytes of the spans from item i of wlog up to the next record
SpanLen(i) ==
    IF i > Len(wlog) \/ wlog[i].kind = "rec" THEN 0
    ELSE Len(wlog[i].data) + SpanLen(i + 1)

\* C10: declared size equals content length.  For every CreateFile(name, size)
\* record of a write_file call that has returned, the spans written between the
\* record and the next record hold exactly size bytes.
C10_DeclaredSize ==
    \A i \in 1..Len(wlog) :
        (/\ wlog[i].kind = "rec"
         /\ wlog[i].op.tag = "CreateFile"
         /\ ~(cur_file # <<>> /\ i = Len(wlog)))
        => SpanLen(i + 1) = wlog[i].op.size

-----------------------------------------------------------------------------
(* Further claims about the multipart writer, checked under SpecMP *)

\* C11 as stated: lazy part creation.  From construction onward and after any
\* sequence of write calls, a part file exists only if at least one byte has
\* been written to it.
C11_LazyCreation ==
    phase = "writing" => \A n \in DOMAIN disk : Len(disk[n]) > 0

\* C11, amended: a part file exists only if it is the part the cursor is on or
\* at least one byte has been written to it, and no part above the cursor's
\* exists.  The cursor's part is created empty, part 0 by new and part n + 1
\* by the write that finds part n full, before any byte goes to it.
C11_CreatedAtRollover ==
    phase = "writing" =>
        /\ mw.file_number \in DOMAIN disk
        /\ \A n \in DOMAIN disk :
              /\ n <= mw.file_number
              /\ n # mw.file_number => Len(disk[n]) > 0

\* a write of no bytes found part 0 full and left an empty part 1 behind
C11_Witness ==
    /\ phase = "writing"
    /\ mw = [file_number |-> 1, file_size |-> 0]
    /\ w_ret = 0
    /\ Len(sent) = max_file_size
    /\ disk[1] = <<>>

-----------------------------------------------------------------------------
(* Claims about restore of arbitrary streams, checked under SpecReplay *)

\* the file system interpret works on: out after its create_dir_all(base_path)
Ensured == create_dir_all(out, base_path).fs

\* C12: no merge on restore.  When the restorer reads EnterDirectory(name) and
\* current_path/name exists already (it was in the output root before restore,
\* or an earlier record of the stream created it), interpret returns an error,
\* stays where it is and changes nothing in the file system; nothing changes
\* after it has returned.
C12_NoMerge ==
    [][/\ (/\ phase = "restore" /\ status = "running" /\ FailKind = "none"
            /\ NextOp.tag = "EnterDirectory"
            /\ join(base_path, NextOp.name) \in DOMAIN Ensured)
           => /\ status' = "err"
              /\ base_path' = base_path
              /\ out' = Ensured
       /\ (phase = "restore" /\ status = "err") => out' = out]_vars

\* restore failed at the second EnterDirectory(a) of a stream that enters a,
\* leaves it and enters a again, with nothing there before
C12_Witness ==
    /\ phase = "restore"
    /\ status = "err"
    /\ wlog = <<RecItem(EnterDirectory(NameA)), RecItem(LeaveDirectory),
                RecItem(EnterDirectory(NameA))>>
    /\ base_path = OutRoot
    /\ DOMAIN out = {<<>>, OutRoot, join(OutRoot, NameA)}
    /\ Remaining = <<>>

-----------------------------------------------------------------------------
(* Claims about the backup of root/{a.txt, sub/{b.txt}}, checked under       *)
(* SpecScenario                                                              *)

\* C13 as stated: with M = 5 bytes the backup of the tree produces exactly the
\* part files 0, 1, 2, 3, 4.
C13_FiveParts ==
    (phase = "backed" /\ max_file_size = 5) => DOMAIN disk = 0..4

\* C13, amended: with M = 5 bytes the backup of the tree produces exactly the
\* part files 0..24: the stream is 123 bytes (records of 20, 29, 19, 29, 8 and
\* 8 bytes with their 4-byte prefixes, and two spans of 5 bytes), so 24 parts
\* of 5 bytes and a last part of 3.
C13_TwentyFiveParts ==
    (phase = "backed" /\ max_file_size = 5) =>
        /\ DOMAIN disk = 0..24
        /\ \A n \in 0..23 : Len(disk[n]) = 5
        /\ Len(disk[24]) = 3
        /\ Len(wlog) = 8
        /\ {Len(Serialize(wlog[i].op)) + 4 :
               i \in {j \in 1..Len(wlog) : wlog[j].kind = "rec"}} = {20, 29, 19, 8}

\* the backup with M = 5 is complete, a.txt having been written before sub
C13_Witness ==
    /\ phase = "backed"
    /\ max_file_size = 5
    /\ Len(wlog) = 8
    /\ wlog[1] = RecItem(EnterDirectory(ScenarioRoot))
    /\ wlog[2] = RecItem(CreateFile(ScenarioA, 5))
    /\ wlog[3] = SpanItem(<<104, 101, 108, 108, 111>>)
    /\ wlog[4] = RecItem(EnterDirectory(ScenarioSub))
    /\ wlog[8] = RecItem(LeaveDirectory)

-----------------------------------------------------------------------------
(* Claims about reads with buffers of any length, checked under SpecZeroRead *)

\* C14: sequential exactly-once reading.  For every sequence of read calls
\* with buffers of any length, the empty buffer included, the bytes delivered
\* are the bytes of parts 0..k in order, none skipped and none twice: what has
\* been delivered is always the stream's beginning, and all of the stream once
\* a read of a non-empty buffer has returned 0.
C14_ExactlyOnce ==
    phase = "reading" =>
        /\ Len(r_out) <= Len(StreamFrom(disk, 0))
        /\ r_out = Take(StreamFrom(disk, 0), Len(r_out))
        /\ r_eofs > 0 => r_out = StreamFrom(disk, 0)

\* the File values a writer holds open at each statement of write
WriterHandles ==
    IF pc = "w_assign" THEN {mw.file_number - 1, mw.file_number}
    ELSE IF pc = "w_create" THEN {mw.file_number - 1}
    ELSE {mw.file_number}

\* the File values a reader holds open at each statement of read
ReaderHandles ==
    IF pc = "r_assign" THEN {rs.mr.open, rs.mr.file_number} ELSE {rs.mr.open}

(* C15, as stated: at every point of a writer or reader run at most one     *)
(* part-file handle is open per writer/reader, the handle of part n being   *)
(* closed before the file of part n+1 is created or opened.                 *)
C15_OneHandle ==
    /\ Cardinality(w_files) <= 1
    /\ Cardinality(r_files) <= 1

(* C15, amended: at most two part-file handles are open per writer/reader   *)
(* and exactly one outside a rollover; on rollover the file of part n+1 is  *)
(* created or opened while the handle of part n is still open, and the      *)
(* handle of part n is closed by the assignment that follows, before any    *)
(* byte of part n+1 is written or read.                                     *)
C15_TwoHandlesInRollover ==
    /\ phase = "writing" =>
          /\ w_files = WriterHandles
          /\ r_files = {}
          /\ pc = "w_assign" => disk[mw.file_number] = <<>>
    /\ phase = "reading" =>
          /\ r_files = ReaderHandles
          /\ w_files = {}
          /\ pc = "r_assign" => rs.mr.open = rs.mr.file_number - 1
    /\ Cardinality(w_files) <= 2
    /\ Cardinality(r_files) <= 2
    /\ pc \notin {"w_assign", "r_assign"} =>
          Cardinality(w_files) + Cardinality(r_files) <= 1

\* a writer in its second rollover holds parts 1 and 2 open, and a reader
\* crossing from part 0 to part 1 holds both open
C15_Witness ==
    \/ pc = "w_assign" /\ w_files = {1, 2}
    \/ pc = "r_assign" /\ r_files = {0, 1} /\ Len(r_out) > 0

\* the statements of a write call
WriterPcs == {"w_enter", "w_create", "w_assign", "w_copy"}

\* the number of statements a write call can still take from where it is
WriteRank ==
    CASE pc = "w_enter" -> IF max_file_size - mw.file_size = 0 THEN 5 ELSE 2
      [] pc = "w_create" -> 4
      [] pc = "w_assign" -> 3
      [] pc = "w_copy" -> 1
      [] OTHER -> 0

(* C17: for every M >= 1 and every buffer a write call terminates (each of  *)
(* its statements can be taken and brings the call strictly nearer to its   *)
(* return), it creates at most one new part file before writing, and the    *)
(* retry after a rollover never finds the fresh part full.                  *)
C17_WriterTerminates ==
    /\ [][(pc \in WriterPcs) => (WriteRank' < WriteRank)]_vars
    /\ [](pc \in WriterPcs => ENABLED SWriteStep)
    /\ [](rolls <= 1)
    /\ [](pc = "w_enter" /\ rolls = 1 => max_file_size - mw.file_size > 0)
    /\ [](pc = "w_copy" /\ Len(arg) > 0 =>
             Min(Len(arg), max_file_size - mw.file_size) > 0)

\* the retry of a write after a rollover, about to write into the fresh part
C17_Witness ==
    /\ pc = "w_copy"
    /\ rolls = 1
    /\ mw.file_size = 0
    /\ mw.file_number = 2
    /\ Len(arg) > max_file_size

-----------------------------------------------------------------------------
(* Claims about restore of arbitrary record streams, checked under          *)
(* SpecReplay                                                               *)

\* path is root or lies under it
Under(root, path) == Len(path) >= Len(root) /\ Take(path, Len(root)) = root

\* the next call of interpret finds a record it can read
ReadsRecord == phase = "restore" /\ status = "running" /\ FailKind = "none"

(* C16: when the restorer reads LeaveDirectory while its current path is    *)
(* the output root, it does not fail: it pops one segment and goes on with  *)
(* the parent of the output root as current path, and an EnterDirectory or  *)
(* CreateFile record read at a path that is not under the output root       *)
(* creates its entry there, outside the output root (where no entry of      *)
(* that name is in the way).                                                *)
C16_UnmatchedLeave ==
    [][/\ (ReadsRecord /\ NextOp.tag = "LeaveDirectory" /\ base_path = OutRoot)
            => /\ status' = "running"
               /\ base_path' = Take(OutRoot, Len(OutRoot) - 1)
               /\ ~Under(OutRoot, base_path')
               /\ out' = Ensured
       /\ (ReadsRecord /\ NextOp.tag \in {"EnterDirectory", "CreateFile"}
             /\ ~Under(OutRoot, base_path)
             /\ join(base_path, NextOp.name) \notin DOMAIN out)
            => /\ ~Under(OutRoot, join(base_path, NextOp.name))
               /\ join(base_path, NextOp.name) \in DOMAIN out'
               /\ NextOp.tag = "EnterDirectory" =>
                     /\ status' = "running"
                     /\ base_path' = join(base_path, NextOp.name)
      ]_vars

\* after LeaveDirectory at the output root and EnterDirectory(a): a directory
\* a beside the output root, and the restorer in it
C16_Witness ==
    /\ phase = "restore"
    /\ status = "running"
    /\ wlog = <<RecItem(LeaveDirectory), RecItem(EnterDirectory(NameA))>>
    /\ Remaining = <<>>
    /\ base_path = <<NameA>>
    /\ <<NameA>> \in DOMAIN out
    /\ out[<<NameA>>] = Dir

-----------------------------------------------------------------------------
(* Termination of restore, checked under SpecDamaged *)

(* C18: restore of any set of part files (as written, truncated or          *)
(* corrupted) returns, with success or an error: while it runs, the next    *)
(* call of interpret ends the run or moves the reader, each call either     *)
(* ends the run or consumes a whole record (its 4-byte prefix and its       *)
(* payload) of the finite stream that is left, so the calls cannot go on    *)
(* for ever, and nothing happens after restore has returned.                *)
C18_RestoreTerminates ==
    /\ [][(phase = "restore" /\ status = "running")
            => \/ status' \in {"ok", "err"}
               \/ /\ status' = "running"
                  /\ \E before \in {Remaining}, after \in {RemainingOf(rs', disk)} :
                        /\ Len(before) >= 4
                        /\ Len(after) <= Len(before) - 4 - FromLE(Take(before, 4))
                        /\ Len(after) < Len(before)]_vars
    /\ [](phase = "restore" /\ status = "running" =>
             \E r \in {interpret(rs, disk, base_path, out)} :
                r.status # "running" \/ r.st # rs)
    /\ [](phase = "restore" /\ status \in {"ok", "err"} => ~ENABLED NextDamaged)

\* restore of a damaged backup has returned after consuming records
C18_Witness ==
    /\ phase = "restore"
    /\ status \in {"ok", "err"}
    /\ AllParts(disk) # Concat(disk, 0, 0) \o StreamFrom(disk, 1)
           \/ sent # AllParts(disk)
    /\ Len(Remaining) < Len(StreamFrom(disk, 0))
    /\ Len(Remaining) > 0

RECURSIVE InterpretedOps(_)
\* the records a restorer reads from the byte stream bs, in order: a record is
\* a 4-byte length prefix and a payload that decodes, and the bytes a
\* CreateFile declares are skipped; the list ends where no record can be read
InterpretedOps(bs) ==
    IF Len(bs) < 4 \/ FromLE(Take(bs, 4)) > Len(bs) - 4
    THEN <<>>
    ELSE LET n    == FromLE(Take(bs, 4))
             r    == Deserialize(SubSeq(bs, 5, 4 + n))
             rest == Drop(bs, 4 + n)
         IN  IF ~r.ok THEN <<>>
             ELSE IF r.op.tag # "CreateFile" THEN <<r.op>> \o InterpretedOps(rest)
             ELSE IF r.op.size > Len(rest) THEN <<r.op>>
             ELSE <<r.op>> \o InterpretedOps(Drop(rest, r.op.size))

\* EnterDirectory records minus LeaveDirectory records among the first k of ops
OpsDepth(ops, k) ==
    Cardinality({i \in 1..k : ops[i].tag = "EnterDirectory"})
    - Cardinality({i \in 1..k : ops[i].tag = "LeaveDirectory"})

\* the records of the whole stream on disk
StreamOps == InterpretedOps(StreamFrom(disk, 0))

\* the records of the part of the stream the restorer has consumed
ConsumedOps ==
    InterpretedOps(Take(StreamFrom(disk, 0),
                        Len(StreamFrom(disk, 0)) - Len(Remaining)))

\* every prefix of the stream has at least as many EnterDirectory as
\* LeaveDirectory records
WellFormed == \A k \in 0..Len(StreamOps) : OpsDepth(StreamOps, k) >= 0

(* C19: when the restorer interprets a stream of which every prefix has at  *)
(* least as many EnterDirectory as LeaveDirectory records (names being      *)
(* single leaf names), its current path is always the output root or a      *)
(* descendant of it, as deep below the root as the records consumed have    *)
(* left scopes open; CreateFile leaves the current path unchanged; every    *)
(* directory and file it creates or writes lies under the output root; and  *)
(* when the stream has been consumed with all scopes closed, the current    *)
(* path is the output root.                                                 *)
C19_Confined ==
    /\ [](phase = "restore" /\ WellFormed =>
             /\ Under(OutRoot, base_path)
             /\ status # "err" =>
                   Len(base_path) = Len(OutRoot) + OpsDepth(ConsumedOps, Len(ConsumedOps))
             /\ (status = "ok" /\ OpsDepth(StreamOps, Len(StreamOps)) = 0
                   /\ ConsumedOps = StreamOps) => base_path = OutRoot)
    /\ [][(phase = "restore" /\ WellFormed) =>
             /\ \A q \in DOMAIN out' :
                   (q \notin DOMAIN out \/ out'[q] # out[q]) => Under(OutRoot, q)
             /\ DOMAIN out \subseteq DOMAIN out'
             /\ (ReadsRecord /\ NextOp.tag = "CreateFile") => base_path' = base_path
          ]_vars

\* restore of EnterDirectory(a), CreateFile(b, 2) and its two bytes has
\* returned: a/b lies under the output root
C19_Witness ==
    /\ phase = "restore"
    /\ status = "ok"
    /\ stop = "eof"
    /\ wlog = <<RecItem(EnterDirectory(NameA)), RecItem(CreateFile(NameB, 2)),
                SpanItem(<<1, 2>>)>>
    /\ base_path = join(OutRoot, NameA)
    /\ out[join(join(OutRoot, NameA), NameB)] = File(<<1, 2>>)

-----------------------------------------------------------------------------
(* Claims about reading a directory with any set of parts, checked under    *)
(* SpecGap                                                                  *)

(* C20: for any set of numbered files in the directory, once read has       *)
(* returned 0 for a non-empty buffer, every later read returns 0 and the    *)
(* reader's part number does not change; and the reader never delivers      *)
(* bytes of a part numbered above the first missing number.                 *)
C20_StickyEof ==
    /\ [][(phase = "reading" /\ r_eofs > 0) =>
             /\ r_ret'.n = 0
             /\ r_out' = r_out
             /\ rs'.mr.file_number = rs.mr.file_number]_vars
    /\ [](phase = "reading" =>
             /\ Len(r_out) <= Len(StreamFrom(disk, 0))
             /\ r_out = Take(StreamFrom(disk, 0), Len(r_out)))

-----------------------------------------------------------------------------
(* Claims about a backup into the directory of an earlier backup, checked   *)
(* under SpecStale                                                          *)

RECURSIVE WrittenBytes(_)
\* the bytes StructWriter hands to the writer for the items: a record as its
\* 4-byte length prefix and its payload, a span as it is
WrittenBytes(items) ==
    IF items = <<>> THEN <<>>
    ELSE LET it == items[1] IN
         (IF it.kind = "rec"
          THEN LE(Len(Serialize(it.op)), 4) \o Serialize(it.op)
          ELSE it.data)
         \o WrittenBytes(Tail(items))

(* C21: after a backup has completed into any destination directory, one   *)
(* that holds the part files of an earlier, longer backup included, the     *)
(* numbered files in the destination are exactly 0..k, k being the last     *)
(* part this backup wrote, so that a following restore reads exactly the    *)
(* bytes of this backup and nothing after them: it ends at the end of the   *)
(* stream with the tree of this backup in the output root.                  *)
C21_NoStaleParts ==
    /\ phase \in {"backed", "restore"} =>
          /\ DOMAIN disk = 0..mw.file_number
          /\ StreamFrom(disk, 0) = WrittenBytes(wlog)
    /\ (phase = "restore" /\ status # "running") =>
          /\ status = "ok"
          /\ stop = "eof"
          /\ out = Expected(src)

=============================================================================
